---- MODULE Spec2Model ----
(***************************************************************************)
(* A model of src/app.py: the Smartsheet webhook endpoint that, on a POST  *)
(* notification, fetches the checked rows of a sheet, generates one Excel  *)
(* file per property address from a template and attaches each file to its *)
(* row; and the registrar that creates or re-enables the webhook.          *)
(*                                                                         *)
(* The handler of a POST is modelled one network or file-system call at a  *)
(* time: between two of its calls the users of the sheet edit cells and    *)
(* the other server threads take their own steps.                          *)
(*                                                                         *)
(* Python values are modelled as strings.  Text is itself ("A", "TRUE",    *)
(* ""); the values that are not text are written in angle brackets:        *)
(* "<None>", "<True>", "<False>", "<nan>" (the float NaN that pandas puts  *)
(* where a row lacks a column of the frame) and "<72>" (the number 72).    *)
(* "<template>" is the content a cell has in the untouched template.       *)
(***************************************************************************)
EXTENDS Integers, Sequences, FiniteSets, TLC

\* ------------------------------------------------------------------ bounds
\* The rows of the sheet
MaxRows == 2
\* The webhook subscriptions the service holds at most
MaxWebhooks == 3
\* The POST notifications the server takes
MaxPosts == 2
\* The cells the users of the sheet change
MaxEdits == 1
\* The webhooks on the first page of the service's listing (the service's
\* own page size, scaled down)
PageSize == 2

VARIABLES
  sheet,     \* the sheet in the service: sheet[r][c] is the value of row r's cell in column c
  edits,     \* the number of cells the users of the sheet changed
  outdir,    \* whether the directory property_folders exists
  fs,        \* the subdirectories of property_folders and their .xlsx workbooks
  last,      \* the request webhook_listener answered last, and the answer
  threads,   \* per server thread, where its POST handler stands and its locals
  posts,     \* the number of POST notifications the server took
  webhooks,  \* the webhook subscriptions the service holds
  runs       \* per run of register_webhook, where it stands and its locals

vars == <<sheet, edits, outdir, fs, last, threads, posts, webhooks, runs>>

\* ------------------------------------------------------------- python values
None == "<None>"
PyTrue == "<True>"
PyFalse == "<False>"
NaN == "<nan>"
TemplateCell == "<template>"

NonText == {None, PyTrue, PyFalse, NaN, "<72>", TemplateCell}

\* bool(v): None, False and the empty string are falsy; NaN is a non-zero
\* float and so truthy, like every non-empty text and True.
Truthy(v) == v \notin {None, PyFalse, ""}

\* isinstance(v, str)
IsStr(v) == v \notin NonText

\* ------------------------------------------------------------------- sheet
RowIds == 1..MaxRows

CheckBoxCol == "Check Box"
AddressCol == "Property Address"
LocalAuthCol == "Local authority"
EpcCol == "EPC Score ( Rd SAP)"
TenureCol == "Tenure"
Columns == {CheckBoxCol, AddressCol, LocalAuthCol, EpcCol, TenureCol}

\* mapping_positions, in the dict's order
mapping_positions ==
  << [key |-> AddressCol, cell |-> "B3"],
     [key |-> LocalAuthCol, cell |-> "B5"],
     [key |-> EpcCol, cell |-> "B6"],
     [key |-> TenureCol, cell |-> "B7"] >>

\* The cells of a workbook: the four mapped ones and one that no mapping names.
Cells == {"A1", "B3", "B5", "B6", "B7"}

\* The template file Updated Schedule.xlsx
TEMPLATE == [c \in Cells |-> TemplateCell]

\* A file that is open for writing and not written out yet, or that two
\* writers wrote at once: it holds no cell, and is no workbook to openpyxl
Broken == [c \in {} |-> TemplateCell]

\* ------------------------------------------------------------- dictionaries
\* d.get(k): the value under k, None when d has no key k
DictGet(d, k) == IF k \in DOMAIN d THEN d[k] ELSE None

\* d[k] = v
DictPut(d, k, v) == [x \in DOMAIN d \cup {k} |-> IF x = k THEN v ELSE d[x]]

EmptyDict == [x \in {} |-> None]

\* --------------------------------------------------- fetch_smartsheet_data
\* row_data: the row's cells keyed by column title, the falsy values left out
RowData(cells) == [c \in {k \in Columns : Truthy(cells[k])} |-> cells[c]]

\* A slip that takes every truthy value for a checked box
IsCheckedTruthy(row_data) == Truthy(DictGet(row_data, CheckBoxCol))

\* row_data.get("Check Box") is True
IsChecked(row_data) == DictGet(row_data, CheckBoxCol) = PyTrue

\* The loop over sheet.rows from row i on.  acc.sheet_data is the list of the
\* retained row_data (each with the id of the row it was read from, which the
\* frame itself does not hold) and acc.row_id_map the lookup built so far.
RECURSIVE FetchRows(_, _, _)
FetchRows(sh, i, acc) ==
  IF i > MaxRows THEN acc
  ELSE LET rd == RowData(sh[i])
       IN IF IsChecked(rd)
          THEN FetchRows(sh, i + 1,
                 [sheet_data |-> Append(acc.sheet_data, [id |-> i, data |-> rd]),
                  row_id_map |-> IF AddressCol \in DOMAIN rd
                                 THEN DictPut(acc.row_id_map, rd[AddressCol], i)
                                 ELSE acc.row_id_map])
          ELSE FetchRows(sh, i + 1, acc)

\* fetch_smartsheet_data(): sh is the sheet as get_sheet returns it and apiOK
\* whether get_sheet answered; on an ApiError the result is (None, {}),
\* modelled as isNone with an empty frame.
fetch_smartsheet_data(sh, apiOK) ==
  IF apiOK
  THEN LET r == FetchRows(sh, 1, [sheet_data |-> <<>>, row_id_map |-> EmptyDict])
       IN [isNone |-> FALSE, df |-> r.sheet_data, row_id_map |-> r.row_id_map]
  ELSE [isNone |-> TRUE, df |-> <<>>, row_id_map |-> EmptyDict]

\* ------------------------------------------------------------ pd.DataFrame
\* The frame's columns: every key of some row of the list
DfColumns(df) == UNION {DOMAIN df[i].data : i \in 1..Len(df)}

\* df.empty
DfEmpty(df) == Len(df) = 0 \/ DfColumns(df) = {}

\* row[key] for a column of the frame: NaN where the row had no such key
SeriesItem(df, i, key) ==
  IF key \in DOMAIN df[i].data THEN df[i].data[key] ELSE NaN

\* row.get(key): None when the frame has no such column
SeriesGet(df, i, key) ==
  IF key \in DfColumns(df) THEN SeriesItem(df, i, key) ELSE None

\* --------------------------------------------------- create_property_files
\* if key in row and row[key]
ShouldWrite(df, i, key) == key \in DfColumns(df) /\ Truthy(SeriesItem(df, i, key))

\* The loop over mapping_positions from entry k on, writing into workbook ws
RECURSIVE FillCells(_, _, _, _)
FillCells(ws, df, i, k) ==
  IF k > Len(mapping_positions) THEN ws
  ELSE LET m == mapping_positions[k]
       IN FillCells(IF ShouldWrite(df, i, m.key)
                    THEN [ws EXCEPT ![m.cell] = SeriesItem(df, i, m.key)]
                    ELSE ws,
                    df, i, k + 1)

\* The file system under property_folders: tree[d] is the list of the .xlsx
\* workbooks in subdirectory d (empty when the directory holds none); the
\* only file this program writes into d is d.xlsx.
\* os.makedirs(property_folder, exist_ok=True)
Makedirs(tree, d) == IF d \in DOMAIN tree THEN tree ELSE DictPut(tree, d, <<>>)

\* d/d.xlsx now holds wb
WriteFile(tree, d, wb) == DictPut(tree, d, <<wb>>)

\* ---------------------------------------- attach_excel_files_to_smartsheet
\* row_id_map.get(property_folder, None); None is written 0, which no row has
\* as its id and which is falsy like None
NoRowId == 0
RowIdGet(row_id_map, property_folder) ==
  IF property_folder \in DOMAIN row_id_map THEN row_id_map[property_folder] ELSE NoRowId

\* A slip that never skips an unresolved directory
NotRowIdNeverSkips(row_id) == FALSE

\* if not row_id
NotRowId(row_id) == row_id = NoRowId

\* One pass of the loop over os.listdir(OUTPUT_DIRECTORY), for the entry
\* property_folder: the calls of attach_file_to_row it makes, none when the
\* directory holds no .xlsx file or the lookup has no row id for it, else one
\* with the file as it is now; ok is whether the upload returns (it raises
\* ApiError otherwise, which the pass catches).
AttachPass(tree, row_id_map, property_folder, ok) ==
  LET excel_files == tree[property_folder]
      row_id == RowIdGet(row_id_map, property_folder)
  IN IF excel_files = <<>> THEN <<>>
     ELSE IF NotRowId(row_id) THEN <<>>
     ELSE << [dir |-> property_folder, row_id |-> row_id,
              file |-> excel_files[1], ok |-> ok] >>

\* All orders in which os.listdir can return the subdirectories
Listings(dirs) ==
  {s \in [1..Cardinality(dirs) -> dirs] : \A i, j \in 1..Cardinality(dirs) : s[i] = s[j] => i = j}

\* --------------------------------------------------------------- requests
\* The values a cell of each column takes in the sheets explored
CellValues(c) ==
  CASE c = CheckBoxCol -> {PyTrue, PyFalse, "TRUE"}
    [] c = AddressCol -> {None, "", "A", "B"}
    [] c = LocalAuthCol -> {None, "Leeds"}
    [] c = EpcCol -> {None, "<72>"}
    [] c = TenureCol -> {None, "Freehold"}

\* A row's cells
Row(checkBox, address, localAuthority, epc, tenure) ==
  (CheckBoxCol :> checkBox) @@ (AddressCol :> address) @@ (LocalAuthCol :> localAuthority)
    @@ (EpcCol :> epc) @@ (TenureCol :> tenure)

RowContents ==
  {Row(cb, a, la, e, t) : cb \in CellValues(CheckBoxCol), a \in CellValues(AddressCol),
                          la \in CellValues(LocalAuthCol), e \in CellValues(EpcCol),
                          t \in CellValues(TenureCol)}

\* The columns whose cells vary in the sheets of the endpoint's specification
\* (the three other mapped columns stay empty there; SpecFill varies them all)
EndpointColumns == {CheckBoxCol, AddressCol}
EndpointValues(c) ==
  CASE c = AddressCol -> {None, "A"}
    [] OTHER -> CellValues(c)
EndpointRows ==
  {Row(cb, a, None, None, None) : cb \in EndpointValues(CheckBoxCol),
                                  a \in EndpointValues(AddressCol)}

\* The JSON bodies of the notifications explored: no "events" key, an empty
\* list, and one event with one changed column
NoBody == [hasEvents |-> FALSE, events |-> <<>>]
Changed(title, value) ==
  [hasEvents |-> TRUE,
   events |-> << [rowId |-> 1, changedColumns |-> << [columnTitle |-> title, newValue |-> value] >>] >>]
Bodies ==
  {NoBody, [hasEvents |-> TRUE, events |-> <<>>],
   Changed(TenureCol, "Freehold"), Changed(CheckBoxCol, "FALSE"), Changed(CheckBoxCol, "TRUE")}

\* The smartsheetHookChallenge arguments explored: absent, empty, two tokens
Challenges == {None, "", "xyz123", "abc"}

\* The answers' texts.  The static acknowledgment begins with the character
\* U+2705 and a space; a TLA+ string holds ASCII only, so the character is
\* written by its code point.
StaticAck == "<U+2705> Webhook is set up correctly!"
UpdatedMsg == "Files updated & attached!"
NoRowsMsg == "No checked rows found!"
ServerErrorMsg == "Internal Server Error"

\* ------------------------------------------------------------ the endpoint
\* What is recorded of the request answered last: the request, the answer,
\* whether get_sheet answered (fetched) and the rows whose box it showed
\* checked (active), whether create_property_files and
\* attach_excel_files_to_smartsheet were entered, and the exception that
\* ended the request, if one did.
NoRequest ==
  [method |-> "none", challenge |-> None, body |-> NoBody, status |-> 0, text |-> "",
   fetched |-> FALSE, active |-> {}, created |-> FALSE, attached |-> FALSE,
   raised |-> "none"]

\* A slip that answers every GET with the static acknowledgment
GetResponseStatic(challenge) == [text |-> StaticAck, status |-> 200]

\* webhook_listener, request.method == "GET"
GetResponse(challenge) ==
  IF Truthy(challenge) THEN [text |-> challenge, status |-> 200]
  ELSE [text |-> StaticAck, status |-> 200]

\* A GET is answered without a call that waits: one step
Get ==
  \E challenge \in Challenges :
    LET r == GetResponse(challenge)
    IN /\ last' = [NoRequest EXCEPT !.method = "GET", !.challenge = challenge,
                                    !.status = r.status, !.text = r.text]
       /\ UNCHANGED <<sheet, edits, outdir, fs, threads, posts, webhooks, runs>>

\* The development server handles each request on a thread of its own.  A
\* thread's locals: the body of its request, df and row_id_map, the index i
\* of the row create_property_files stands at, the workbook wb it loaded,
\* the listing os.listdir returned, the index k of the entry the attach loop
\* stands at and the calls of attach_file_to_row made so far.  For the claims
\* it also keeps the rows whose box get_sheet showed checked (active), the
\* listed directories that held a file when they were listed (hadFile),
\* whether another writer had the file open while this thread wrote it
\* (raced) and whether another request ran during this one (overlapped).
Threads == {1, 2}

IdleThread ==
  [pc |-> "idle", body |-> NoBody, active |-> {}, df |-> <<>>, row_id_map |-> EmptyDict,
   i |-> 0, wb |-> TEMPLATE, raced |-> FALSE, listing |-> <<>>, hadFile |-> {},
   k |-> 0, calls |-> <<>>, overlapped |-> FALSE]

Busy(t) == threads[t].pc # "idle"

\* if df is not None and not df.empty
HasRows(f) == ~f.isNone /\ ~DfEmpty(f.df)

\* The rows of sheet sh whose Check Box cell is the boolean true
CheckedRows(sh) == {r \in RowIds : sh[r][CheckBoxCol] = PyTrue}

\* The request of thread t ends: the answer is recorded and the thread is free
Answer(t, status, text, raised, attached) ==
  /\ last' = [method |-> "POST", challenge |-> None, body |-> threads[t].body,
              status |-> status, text |-> text, fetched |-> TRUE,
              active |-> threads[t].active, created |-> TRUE, attached |-> attached,
              raised |-> raised]
  /\ threads' = [threads EXCEPT ![t] = IdleThread]

\* A POST arrives and is given to the first free thread;
\* df, row_id_map = fetch_smartsheet_data(), which reads the sheet as it is
\* now; the branch on df: without rows the request is answered 400 at once.
ReceivePost(t, bodies) ==
  \E body \in bodies, apiOK \in BOOLEAN :
    LET f == fetch_smartsheet_data(sheet, apiOK)
        others == {o \in DOMAIN threads \ {t} : Busy(o)}
    IN /\ ~Busy(t)
       /\ \A o \in DOMAIN threads : o < t => Busy(o)
       /\ posts < MaxPosts
       /\ posts' = posts + 1
       /\ IF HasRows(f)
          THEN /\ threads' =
                    [o \in DOMAIN threads |->
                       IF o = t
                       THEN [IdleThread EXCEPT !.pc = "exists", !.body = body,
                                               !.active = CheckedRows(sheet),
                                               !.df = f.df, !.row_id_map = f.row_id_map,
                                               !.i = 1, !.overlapped = others # {}]
                       ELSE IF o \in others THEN [threads[o] EXCEPT !.overlapped = TRUE]
                       ELSE threads[o]]
               /\ last' = last
          ELSE /\ threads' = threads
               /\ last' = [NoRequest EXCEPT
                             !.method = "POST", !.body = body, !.status = 400,
                             !.text = NoRowsMsg, !.fetched = apiOK,
                             !.active = IF apiOK THEN CheckedRows(sheet) ELSE {}]
       /\ UNCHANGED <<sheet, edits, outdir, fs, webhooks, runs>>

\* if not os.path.exists(OUTPUT_DIRECTORY)
CheckOutputDir(t) ==
  /\ threads[t].pc = "exists"
  /\ threads' = [threads EXCEPT ![t].pc = IF outdir THEN "create" ELSE "makedirs"]
  /\ UNCHANGED <<sheet, edits, outdir, fs, last, posts, webhooks, runs>>

\* os.makedirs(OUTPUT_DIRECTORY): FileExistsError when another thread made
\* the directory since this one looked; the request then ends with 500
MakeOutputDir(t) ==
  /\ threads[t].pc = "makedirs"
  /\ IF outdir
     THEN /\ Answer(t, 500, ServerErrorMsg, "FileExistsError", FALSE)
          /\ outdir' = outdir
     ELSE /\ outdir' = TRUE
          /\ threads' = [threads EXCEPT ![t].pc = "create"]
          /\ last' = last
  /\ UNCHANGED <<sheet, edits, fs, posts, webhooks, runs>>

\* property_address of the row the thread's loop stands at
RowAddress(t) == SeriesGet(threads[t].df, threads[t].i, AddressCol)

InCreateLoop(t) == threads[t].pc = "create" /\ threads[t].i <= Len(threads[t].df)

\* if not property_address: continue
SkipRow(t) ==
  /\ InCreateLoop(t)
  /\ ~Truthy(RowAddress(t))
  /\ threads' = [threads EXCEPT ![t].i = @ + 1]
  /\ UNCHANGED <<sheet, edits, outdir, fs, last, posts, webhooks, runs>>

\* os.path.join raises TypeError (the address is no text): the request ends
\* with status 500
RaiseTypeError(t) ==
  /\ InCreateLoop(t)
  /\ Truthy(RowAddress(t))
  /\ ~IsStr(RowAddress(t))
  /\ Answer(t, 500, ServerErrorMsg, "TypeError", FALSE)
  /\ UNCHANGED <<sheet, edits, outdir, fs, posts, webhooks, runs>>

\* os.makedirs(property_folder, exist_ok=True)
MakePropertyFolder(t) ==
  /\ InCreateLoop(t)
  /\ Truthy(RowAddress(t))
  /\ IsStr(RowAddress(t))
  /\ fs' = Makedirs(fs, RowAddress(t))
  /\ threads' = [threads EXCEPT ![t].pc = "copy"]
  /\ UNCHANGED <<sheet, edits, outdir, last, posts, webhooks, runs>>

\* The threads other than t that have the file of t's row open for writing
Writers(t) ==
  {o \in DOMAIN threads \ {t} :
     threads[o].pc \in {"copying", "saving"} /\ RowAddress(o) = RowAddress(t)}

\* Thread t opens the file of its row for writing, which truncates it; the
\* writers that have it open now and t write the same file at once
OpenForWriting(t, pc) ==
  /\ fs' = WriteFile(fs, RowAddress(t), Broken)
  /\ threads' = [o \in DOMAIN threads |->
                   IF o = t THEN [threads[t] EXCEPT !.pc = pc, !.raced = Writers(t) # {}]
                   ELSE IF o \in Writers(t) THEN [threads[o] EXCEPT !.raced = TRUE]
                   ELSE threads[o]]

\* What the file holds when thread t has written wb and closed it: wb, or,
\* when another writer had the file open meanwhile, possibly a mix of both
Written(t, wb) == IF threads[t].raced THEN {wb, Broken} ELSE {wb}

\* shutil.copy(TEMPLATE_PATH, property_file_path) opens the file
OpenCopy(t) ==
  /\ threads[t].pc = "copy"
  /\ OpenForWriting(t, "copying")
  /\ UNCHANGED <<sheet, edits, outdir, last, posts, webhooks, runs>>

\* shutil.copy has written the template and closed the file
WriteCopy(t) ==
  /\ threads[t].pc = "copying"
  /\ \E content \in Written(t, TEMPLATE) : fs' = WriteFile(fs, RowAddress(t), content)
  /\ threads' = [threads EXCEPT ![t].pc = "load", ![t].raced = FALSE]
  /\ UNCHANGED <<sheet, edits, outdir, last, posts, webhooks, runs>>

\* wb = openpyxl.load_workbook(property_file_path): BadZipFile when the file
\* is no workbook now; the request then ends with status 500
LoadWorkbook(t) ==
  /\ threads[t].pc = "load"
  /\ IF fs[RowAddress(t)][1] = Broken
     THEN Answer(t, 500, ServerErrorMsg, "BadZipFile", FALSE)
     ELSE /\ threads' = [threads EXCEPT ![t].wb = fs[RowAddress(t)][1], ![t].pc = "save"]
          /\ last' = last
  /\ UNCHANGED <<sheet, edits, outdir, fs, posts, webhooks, runs>>

\* The loop over mapping_positions fills the loaded workbook;
\* wb.save(property_file_path) opens the file
OpenSave(t) ==
  /\ threads[t].pc = "save"
  /\ OpenForWriting(t, "saving")
  /\ UNCHANGED <<sheet, edits, outdir, last, posts, webhooks, runs>>

\* A slip that closes the file without writing the workbook
WriteSaveNothing(t) ==
  /\ threads[t].pc = "saving"
  /\ fs' = fs
  /\ threads' = [threads EXCEPT ![t].pc = "create", ![t].i = @ + 1, ![t].wb = TEMPLATE,
                                ![t].raced = FALSE]
  /\ UNCHANGED <<sheet, edits, outdir, last, posts, webhooks, runs>>

\* wb.save has written the filled workbook and closed the file; the loop
\* over the rows goes on
WriteSave(t) ==
  /\ threads[t].pc = "saving"
  /\ \E content \in Written(t, FillCells(threads[t].wb, threads[t].df, threads[t].i, 1)) :
       fs' = WriteFile(fs, RowAddress(t), content)
  /\ threads' = [threads EXCEPT ![t].pc = "create", ![t].i = @ + 1, ![t].wb = TEMPLATE,
                                ![t].raced = FALSE]
  /\ UNCHANGED <<sheet, edits, outdir, last, posts, webhooks, runs>>

\* create_property_files returns; os.listdir(OUTPUT_DIRECTORY)
ListOutput(t) ==
  /\ threads[t].pc = "create"
  /\ threads[t].i > Len(threads[t].df)
  /\ \E listing \in Listings(DOMAIN fs) :
       threads' = [threads EXCEPT ![t].pc = "attach", ![t].listing = listing, ![t].k = 1,
                                  ![t].hadFile = {d \in DOMAIN fs : fs[d] # <<>>}]
  /\ UNCHANGED <<sheet, edits, outdir, fs, last, posts, webhooks, runs>>

\* A slip that puts the try/except around the loop: the first upload that
\* raises ApiError ends the loop
AttachStepAborting(t) ==
  /\ threads[t].pc = "attach"
  /\ threads[t].k <= Len(threads[t].listing)
  /\ \E ok \in BOOLEAN :
       LET made == AttachPass(fs, threads[t].row_id_map,
                              threads[t].listing[threads[t].k], ok)
       IN threads' = [threads EXCEPT
                        ![t].calls = @ \o made,
                        ![t].k = IF made # <<>> /\ ~ok
                                 THEN Len(threads[t].listing) + 1 ELSE @ + 1]
  /\ UNCHANGED <<sheet, edits, outdir, fs, last, posts, webhooks, runs>>

\* One pass of the loop over the listing: the directory is skipped, or its
\* file, as it is now, is uploaded; whether the upload raises ApiError or
\* not, the loop goes on.
AttachStep(t) ==
  /\ threads[t].pc = "attach"
  /\ threads[t].k <= Len(threads[t].listing)
  /\ \E ok \in BOOLEAN :
       threads' = [threads EXCEPT
                     ![t].calls = @ \o AttachPass(fs, threads[t].row_id_map,
                                                  threads[t].listing[threads[t].k], ok),
                     ![t].k = @ + 1]
  /\ UNCHANGED <<sheet, edits, outdir, fs, last, posts, webhooks, runs>>

\* return jsonify({"message": "Files updated & attached!"}), 200
Respond(t) ==
  /\ threads[t].pc = "attach"
  /\ threads[t].k > Len(threads[t].listing)
  /\ Answer(t, 200, UpdatedMsg, "none", TRUE)
  /\ UNCHANGED <<sheet, edits, outdir, fs, posts, webhooks, runs>>

\* One step of the POST handler of thread t after the fetch
HandlerStep(t) ==
  \/ CheckOutputDir(t)
  \/ MakeOutputDir(t)
  \/ SkipRow(t)
  \/ RaiseTypeError(t)
  \/ MakePropertyFolder(t)
  \/ OpenCopy(t)
  \/ WriteCopy(t)
  \/ LoadWorkbook(t)
  \/ OpenSave(t)
  \/ WriteSave(t)
  \/ ListOutput(t)
  \/ AttachStep(t)
  \/ Respond(t)

\* A user of the sheet gives the cell of row r in column c the value v, at
\* any time
Edit(r, c, v) ==
  /\ edits < MaxEdits
  /\ sheet[r][c] # v
  /\ sheet' = [sheet EXCEPT ![r][c] = v]
  /\ edits' = edits + 1
  /\ UNCHANGED <<outdir, fs, last, threads, posts, webhooks, runs>>

EditSheet == \E r \in RowIds, c \in EndpointColumns : \E v \in EndpointValues(c) : Edit(r, c, v)

\* ----------------------------------------------------------- the registrar
WEBHOOK_URL == "https://web-production-f336.up.railway.app/webhook"
OtherUrl == "https://other.example/hook"

\* The runs of register_webhook that can be under way at once (the program
\* started twice, or its instances)
Runs == {1, 2}

\* A run's locals: the webhook the loop found in the listing (0 if none);
\* for the claims, whether a subscription with WEBHOOK_URL existed when the
\* run listed the webhooks and whether the run created one
NoRun == [pc |-> "get", found |-> 0, existed |-> FALSE, created |-> FALSE]

\* The first webhook of the listing whose callbackUrl is WEBHOOK_URL, 0 if none
RECURSIVE FirstMatching(_, _)
FirstMatching(list, i) ==
  IF i > Len(list) THEN 0
  ELSE IF list[i].callbackUrl = WEBHOOK_URL THEN i
  ELSE FirstMatching(list, i + 1)

Matching == {i \in 1..Len(webhooks) : webhooks[i].callbackUrl = WEBHOOK_URL}

\* The page of the listing the service answers an unpaged GET with
FirstPage(list) == SubSeq(list, 1, IF Len(list) < PageSize THEN Len(list) ELSE PageSize)

\* requests.get(".../webhooks") and the search of the answer: listOK is
\* whether the service answered 200
ListWebhooks(r) ==
  \E listOK \in BOOLEAN :
    LET found == IF listOK THEN FirstMatching(FirstPage(webhooks), 1) ELSE 0
    IN /\ runs[r].pc = "get"
       /\ runs' = [runs EXCEPT ![r] = [pc |-> IF found # 0 THEN "put" ELSE "post",
                                       found |-> found, existed |-> Matching # {},
                                       created |-> FALSE]]
       /\ UNCHANGED <<sheet, edits, outdir, fs, last, threads, posts, webhooks>>

\* requests.put(".../webhooks/{id}", {"enabled": True}); return.  putOK is
\* whether the service applied it.
PutEnabled(r) ==
  \E putOK \in BOOLEAN :
    /\ runs[r].pc = "put"
    /\ webhooks' = IF putOK THEN [webhooks EXCEPT ![runs[r].found].enabled = TRUE]
                   ELSE webhooks
    /\ runs' = [runs EXCEPT ![r].pc = "get"]
    /\ UNCHANGED <<sheet, edits, outdir, fs, last, threads, posts>>

\* requests.post(".../webhooks", payload): postOK is whether the service
\* accepted it (it refuses when it holds MaxWebhooks); enabled is the state
\* the service gives the new subscription.
PostWebhook(r) ==
  \E postOK \in BOOLEAN, enabled \in BOOLEAN :
    /\ runs[r].pc = "post"
    /\ postOK => Len(webhooks) < MaxWebhooks
    /\ webhooks' = IF postOK
                   THEN Append(webhooks, [callbackUrl |-> WEBHOOK_URL, enabled |-> enabled])
                   ELSE webhooks
    /\ runs' = [runs EXCEPT ![r].pc = "get", ![r].created = postOK]
    /\ UNCHANGED <<sheet, edits, outdir, fs, last, threads, posts>>

\* register_webhook(), one request to the service at a time
register_webhook(r) == ListWebhooks(r) \/ PutEnabled(r) \/ PostWebhook(r)

\* Another integration registers a webhook of its own
OtherWebhookCreated ==
  \E enabled \in BOOLEAN :
    /\ Len(webhooks) < MaxWebhooks
    /\ webhooks' = Append(webhooks, [callbackUrl |-> OtherUrl, enabled |-> enabled])
    /\ UNCHANGED <<sheet, edits, outdir, fs, last, threads, posts, runs>>

\* The service disables a subscription (its callback stopped answering)
ServiceDisables ==
  \E i \in 1..Len(webhooks) :
    /\ webhooks[i].enabled
    /\ webhooks' = [webhooks EXCEPT ![i].enabled = FALSE]
    /\ UNCHANGED <<sheet, edits, outdir, fs, last, threads, posts, runs>>

\* --------------------------------------------------------- specifications
\* The process has started: no request yet, no file generated, no webhook
Started ==
  /\ edits = 0
  /\ outdir = FALSE
  /\ fs = EmptyDict
  /\ last = NoRequest
  /\ posts = 0
  /\ webhooks = <<>>
  /\ runs = [r \in Runs |-> NoRun]

\* The endpoint serving GETs and, one at a time, POSTs of any body, while
\* the users of the sheet edit check boxes and addresses
Init ==
  /\ sheet \in [RowIds -> EndpointRows]
  /\ threads = [t \in {1} |-> IdleThread]
  /\ Started

Next ==
  \/ Get
  \/ \E t \in DOMAIN threads : ReceivePost(t, Bodies) \/ HandlerStep(t)
  \/ EditSheet

Spec == Init /\ [][Next]_vars

\* One notification, the first the process gets, on a sheet whose mapped
\* columns all vary
InitFill ==
  /\ sheet \in [RowIds -> RowContents]
  /\ threads = [t \in {1} |-> IdleThread]
  /\ Started

NextFill ==
  \E t \in DOMAIN threads : (posts = 0 /\ ReceivePost(t, {NoBody})) \/ HandlerStep(t)

SpecFill == InitFill /\ [][NextFill]_vars

\* Two server threads handling POSTs at once.  In the sheets they read the
\* first row has address "A" and its check box and tenure vary; of the other
\* rows the check box varies and the address is "B" or missing.
ConcValues(r, c) ==
  CASE r = 1 /\ c = CheckBoxCol -> {PyTrue, PyFalse, "TRUE"}
    [] r = 1 /\ c = AddressCol -> {"A"}
    [] r = 1 /\ c = TenureCol -> {None, "Freehold"}
    [] r # 1 /\ c = CheckBoxCol -> {PyTrue, PyFalse}
    [] r # 1 /\ c = AddressCol -> {None, "B"}
    [] OTHER -> {None}
ConcRows(r) ==
  {Row(cb, a, None, None, t) : cb \in ConcValues(r, CheckBoxCol),
                               a \in ConcValues(r, AddressCol),
                               t \in ConcValues(r, TenureCol)}
ConcSheets ==
  {sh \in [RowIds -> UNION {ConcRows(r) : r \in RowIds}] : \A r \in RowIds : sh[r] \in ConcRows(r)}

EditCell == \E r \in RowIds, c \in Columns : \E v \in ConcValues(r, c) : Edit(r, c, v)

InitConc ==
  /\ sheet \in ConcSheets
  /\ threads = [t \in Threads |-> IdleThread]
  /\ Started

NextConc ==
  \/ \E t \in DOMAIN threads : ReceivePost(t, {NoBody}) \/ HandlerStep(t)
  \/ EditCell

SpecConc == InitConc /\ [][NextConc]_vars

\* The registrar: runs of register_webhook beside the service's other clients
EmptyRow == [c \in Columns |-> IF c = CheckBoxCol THEN PyFalse ELSE None]

InitReg ==
  /\ sheet = [r \in RowIds |-> EmptyRow]
  /\ threads = [t \in {1} |-> IdleThread]
  /\ Started

NextReg ==
  \/ \E r \in DOMAIN runs : register_webhook(r)
  \/ OtherWebhookCreated
  \/ ServiceDisables

SpecReg == InitReg /\ [][NextReg]_vars

\* ================================================================= claims
CallsOf(run) == {run.calls[x] : x \in 1..Len(run.calls)}

\* The entries of its listing that the attach loop of run has passed
Passed(run) == {run.listing[j] : j \in 1..(run.k - 1)}

\* C1: no file is generated from, and no attachment is uploaded to, a row
\* whose Check Box value is not exactly the boolean true in the sheet as the
\* request's get_sheet returned it: every row a request retained showed the
\* boolean true, the row a request is generating a file from is a retained
\* one, and every upload is bound to the id of a retained row whose address
\* names the uploaded directory, also when directories of earlier batches
\* exist.
C1_OnlyCheckedRows ==
  \A t \in DOMAIN threads :
    LET run == threads[t]
    IN /\ \A x \in 1..Len(run.df) : run.df[x].id \in run.active
       /\ run.pc \in {"copy", "copying", "load", "save", "saving"} =>
            /\ run.df[run.i].id \in run.active
            /\ DictGet(run.df[run.i].data, AddressCol) = RowAddress(t)
       /\ \A u \in CallsOf(run) :
            /\ u.row_id \in run.active
            /\ \E x \in 1..Len(run.df) :
                 /\ run.df[x].id = u.row_id
                 /\ DictGet(run.df[x].data, AddressCol) = u.dir

\* A request uploaded a file and passed, without an upload, the directory an
\* earlier batch left for the address of a row whose box holds the text
\* "TRUE" and that get_sheet did not show checked.
C1_Witness ==
  \E t \in DOMAIN threads :
    /\ threads[t].calls # <<>>
    /\ \E r \in RowIds \ threads[t].active :
         /\ sheet[r][CheckBoxCol] = "TRUE"
         /\ sheet[r][AddressCol] \in Passed(threads[t])
         /\ fs[sheet[r][AddressCol]] # <<>>
         /\ \A u \in CallsOf(threads[t]) : u.dir # sheet[r][AddressCol]

\* Some event of the body has a changed column "Check Box" with new value "TRUE"
HasTrigger(body) ==
  /\ body.hasEvents
  /\ \E e \in 1..Len(body.events) :
       \E k \in 1..Len(body.events[e].changedColumns) :
         /\ body.events[e].changedColumns[k].columnTitle = CheckBoxCol
         /\ body.events[e].changedColumns[k].newValue = "TRUE"

\* C2: a POST notification runs the fetch, generate, publish pipeline only if
\* some event of its body has a changed-columns entry for "Check Box" with
\* new value "TRUE"; a notification without one triggers no fetch, no file
\* generation and no upload.
C2_PipelineOnlyOnTrigger ==
  (last.method = "POST" /\ (last.fetched \/ last.created \/ last.attached))
    => HasTrigger(last.body)

\* The exceptions that are local I/O errors
IOErrors == {"FileExistsError", "BadZipFile"}

\* C5: provided no local I/O error occurs, a POST is answered 200 "Files
\* updated & attached!" exactly when the fetch succeeded and returned at least
\* one active row; otherwise it is answered 400 "No checked rows found!" and
\* neither create_property_files nor attach_excel_files_to_smartsheet is
\* invoked.
C5_StatusFollowsFetch ==
  (last.method = "POST" /\ last.raised \notin IOErrors) =>
    IF last.fetched /\ last.active # {}
    THEN last.status = 200 /\ last.text = UpdatedMsg
    ELSE /\ last.status = 400 /\ last.text = NoRowsMsg
         /\ ~last.created /\ ~last.attached

\* C6: the upload API is called for a subdirectory only if its name has an
\* entry in the lookup supplied to the call, and then with exactly that
\* entry's row id; for a subdirectory without an entry it is not called.
C6_UploadsOnlyResolved ==
  \A t \in DOMAIN threads :
    /\ \A u \in CallsOf(threads[t]) :
         /\ u.dir \in DOMAIN threads[t].row_id_map
         /\ u.row_id = threads[t].row_id_map[u.dir]
    /\ \A d \in Passed(threads[t]) \ DOMAIN threads[t].row_id_map :
         \A u \in CallsOf(threads[t]) : u.dir # d

\* The attach loop passed a directory that holds a file and has no entry in
\* the lookup, and uploaded another.
C6_Witness ==
  \E t \in DOMAIN threads :
    /\ threads[t].calls # <<>>
    /\ \E d \in Passed(threads[t]) :
         fs[d] # <<>> /\ d \notin DOMAIN threads[t].row_id_map

\* The attach loop of run is over
AttachOver(run) == run.pc = "attach" /\ run.k > Len(run.listing)

\* C7: an ApiError of one upload does not abort the batch: when the loop is
\* over, every listed subdirectory that held an .xlsx file and has a resolved
\* row id got exactly one upload attempt, whatever the outcome of the others,
\* no subdirectory got two, and the call returns normally (a request that
\* entered the attach step is answered 200).
C7_EveryResolvedDirOnce ==
  /\ \A t \in DOMAIN threads :
       AttachOver(threads[t]) =>
         /\ \A d \in threads[t].hadFile \cap DOMAIN threads[t].row_id_map :
              \E x \in 1..Len(threads[t].calls) : threads[t].calls[x].dir = d
         /\ \A x, y \in 1..Len(threads[t].calls) :
              threads[t].calls[x].dir = threads[t].calls[y].dir => x = y
  /\ last.attached => last.status = 200

\* The loop is over after two upload attempts, the first of which raised
\* ApiError.
C7_Witness ==
  \E t \in DOMAIN threads :
    /\ AttachOver(threads[t])
    /\ Len(threads[t].calls) = 2
    /\ ~threads[t].calls[1].ok

\* The answer to a GET: the token when it is not empty, else the static text
C9_GetAnswer ==
  last.method = "GET" =>
    /\ last.status = 200
    /\ last.text = (IF last.challenge \notin {None, ""} THEN last.challenge ELSE StaticAck)
    /\ ~last.fetched /\ ~last.created /\ ~last.attached

\* C9: a GET with a non-empty challenge token is answered with exactly the
\* token and status 200, a GET without a token or with an empty one with the
\* static acknowledgment and status 200, and neither performs a fetch, a
\* file generation or an upload: the step that answers a GET leaves the
\* sheet, the files and the POST handlers as they are.
C9_GetHandshake ==
  /\ []C9_GetAnswer
  /\ [][(last' # last /\ last'.method = "GET")
          => UNCHANGED <<sheet, outdir, fs, threads, posts>>]_vars

\* A GET carrying the token "xyz123" was answered with it while a POST
\* handler is at work and generated files exist.
C9_Witness ==
  /\ last.method = "GET"
  /\ last.challenge = "xyz123"
  /\ last.text = "xyz123"
  /\ fs # EmptyDict
  /\ \E t \in DOMAIN threads : Busy(t)

\* The rows of the sheet whose Check Box cell is the boolean true
ActiveRows == CheckedRows(sheet)

\* The active rows with a non-empty address that no later active row shares
\* (of two active rows with one address the later one's file stays)
AddressedRows ==
  {r \in ActiveRows :
     /\ Truthy(sheet[r][AddressCol])
     /\ \A q \in ActiveRows : q > r => sheet[q][AddressCol] # sheet[r][AddressCol]}

MappedCells == {mapping_positions[k].cell : k \in 1..Len(mapping_positions)}

\* C3: for every batch of active rows, with differing sets of filled columns,
\* and every row in it with non-empty address A, after create_property_files
\* the file A/A.xlsx has each mapped cell equal to the row's value when the
\* row has a non-empty value for the column, and equal to the template's
\* cell when the row lacks the column or has it empty; the unmapped cells
\* equal the template's.
C3_FileMatchesRow ==
  (last.method = "POST" /\ last.created /\ last.raised = "none") =>
    \A r \in AddressedRows :
      LET A == sheet[r][AddressCol]
      IN /\ A \in DOMAIN fs
         /\ fs[A] # <<>>
         /\ fs[A][1] # Broken
         /\ \A k \in 1..Len(mapping_positions) :
              LET m == mapping_positions[k]
              IN fs[A][1][m.cell] =
                   (IF Truthy(sheet[r][m.key]) THEN sheet[r][m.key] ELSE TEMPLATE[m.cell])
         /\ \A c \in Cells \ MappedCells : fs[A][1][c] = TEMPLATE[c]

\* C4: for an active row without an address, or with an empty one, in any
\* batch, create_property_files produces no file for that row and does not
\* raise; the other rows of the batch are still generated and the request
\* goes on to the publish step.
C4_NoAddressIsNoOp ==
  (last.method = "POST" /\ last.created
     /\ \E r \in ActiveRows : ~Truthy(sheet[r][AddressCol])) =>
    /\ last.raised = "none"
    /\ last.attached
    /\ DOMAIN fs = {sheet[r][AddressCol] : r \in AddressedRows}
    /\ \A d \in DOMAIN fs : fs[d] # <<>>

\* C8: after any number of register_webhook runs, whatever the outcome of
\* their outbound calls, at most one subscription has this endpoint's
\* callback URL, and a run that began while one existed created none.
C8_AtMostOneSubscription ==
  /\ Cardinality(Matching) <= 1
  /\ \A r \in DOMAIN runs : runs[r].created => ~runs[r].existed

\* The workbook create_property_files saves for directory d in a request
\* that runs alone: the template filled from the row the lookup names
Expected(run, d) ==
  LET j == CHOOSE x \in 1..Len(run.df) : run.df[x].id = RowIdGet(run.row_id_map, d)
  IN FillCells(TEMPLATE, run.df, j, 1)

\* C10: two POST handlers running concurrently for one address are not
\* mutually excluded on the address's file, so one can upload the file after
\* the other copied the template over it and before it saved the filled
\* cells; when the handlers run strictly one after another, every uploaded
\* file is the one generated from the row data fetched in the same request.
C10_SequentialUploadsAreFilled ==
  \A t \in DOMAIN threads :
    ~threads[t].overlapped =>
      \A u \in CallsOf(threads[t]) : u.file = Expected(threads[t], u.dir)

\* A thread uploaded the bare template for address "A", whose row has a
\* tenure to fill in, while the other thread, having copied the template,
\* has not saved the filled workbook yet.
C10_Witness ==
  \E t \in DOMAIN threads, o \in DOMAIN threads :
    /\ threads[t].overlapped
    /\ threads[o].pc \in {"load", "save"}
    /\ RowAddress(o) = "A"
    /\ \E u \in CallsOf(threads[t]) :
         /\ u.dir = "A"
         /\ u.file = TEMPLATE
         /\ Expected(threads[t], "A") # TEMPLATE

====
